---------------------------- MODULE Spec2Model ----------------------------
(***************************************************************************)
(* bl702-hal: the SPI bus driver (src/src/spi.rs) and the mcycle busy-wait *)
(* delay it embeds (src/src/delay.rs).                                     *)
(*                                                                         *)
(* The driver is a single thread of control; the peripheral (FIFOs, fault  *)
(* flags, the free-running cycle counter) is its environment.  One action  *)
(* is one poll of a status register by the driver, one call entry, or one  *)
(* step of the hardware.                                                   *)
(***************************************************************************)
EXTENDS Integers, Sequences, FiniteSets, TLC

(***************************************************************************)
(* Bounds of the model.                                                    *)
(***************************************************************************)
\* longest caller buffer of a stand-alone read/write/transfer call
MaxLen == 2
\* largest advance of the cycle counter between two polls of delay_cycles
MaxTick == 2
\* largest cycle count a modelled delay call spins for
MaxCycles == 2
\* depth of the transmit and of the receive FIFO
FifoDepth == 2

(***************************************************************************)
(* u64: four 16-bit limbs, least significant first.  The cycle counter and *)
(* the differences delay_cycles computes keep their 64-bit width.          *)
(***************************************************************************)
Limb == 65536

U64(n) == <<n % Limb, (n \div Limb) % Limb, 0, 0>>

U64Max == <<Limb - 1, Limb - 1, Limb - 1, Limb - 1>>

wrapping_add(a, b) ==
    LET s1 == a[1] + b[1]
        s2 == a[2] + b[2] + (s1 \div Limb)
        s3 == a[3] + b[3] + (s2 \div Limb)
        s4 == a[4] + b[4] + (s3 \div Limb)
    IN  <<s1 % Limb, s2 % Limb, s3 % Limb, s4 % Limb>>

\* a subtraction that stops at zero instead of wrapping
saturating_sub(a, b) ==
    IF    \/ a[4] < b[4]
          \/ a[4] = b[4] /\ a[3] < b[3]
          \/ a[4] = b[4] /\ a[3] = b[3] /\ a[2] < b[2]
          \/ a[4] = b[4] /\ a[3] = b[3] /\ a[2] = b[2] /\ a[1] < b[1]
      THEN <<0, 0, 0, 0>>
      ELSE <<a[1] - b[1], a[2] - b[2], a[3] - b[3], a[4] - b[4]>>

\* u64::wrapping_sub: a - b modulo 2^64

wrapping_sub(a, b) ==
    LET d1 == a[1] - b[1]
        d2 == a[2] - b[2] - (IF d1 < 0 THEN 1 ELSE 0)
        d3 == a[3] - b[3] - (IF d2 < 0 THEN 1 ELSE 0)
        d4 == a[4] - b[4] - (IF d3 < 0 THEN 1 ELSE 0)
    IN  <<(d1 + Limb) % Limb, (d2 + Limb) % Limb,
          (d3 + Limb) % Limb, (d4 + Limb) % Limb>>

\* a <= b on u64
U64LessEq(a, b) ==
    \/ a[4] < b[4]
    \/ a[4] = b[4] /\ a[3] < b[3]
    \/ a[4] = b[4] /\ a[3] = b[3] /\ a[2] < b[2]
    \/ a[4] = b[4] /\ a[3] = b[3] /\ a[2] = b[2] /\ a[1] <= b[1]

(***************************************************************************)
(* Inputs.                                                                 *)
(***************************************************************************)
\* core clock frequencies (Hz) a McycleDelay is constructed with
CoreFreqs == {1, 1000, 1500, 1000000, 144000000}

\* durations handed to delay_ns / delay_us / delay_ms
Durations == {0, 1, 2, 14, 999, 1000, 2000}

\* values the free-running counter may hold when delay_cycles reads it first
CycleStarts ==
    { U64(0), U64(Limb - 1), <<Limb - 1, Limb - 1, 0, 0>>,
      U64Max, wrapping_sub(U64Max, U64(1)), wrapping_sub(U64Max, U64(2)) }

VARIABLES
    pc,                 \* where the driver is: "unbuilt", "panicked", "idle",
                        \* "next" (transaction loop head), "poll" (inside
                        \* an nb::block!), "busy" (flush), "spin"
                        \* (delay_cycles)
    op,                 \* the primitive in progress, or the last one
    rbuf,               \* the caller's read / in-place buffer
    wbuf,               \* the caller's write buffer
    prog,               \* the nb::block! polls the primitive has still to
                        \* make, in order: its position in its loops
    ret,                \* what the last primitive returned
    txn,                \* the operations of the transaction in progress
    opIdx,              \* index into txn of the operation in progress
    txnRet,             \* what the last transaction returned
    txFifo,             \* bytes pushed to spi_fifo_wdata, not yet clocked out
    rxFifo,             \* words waiting in spi_fifo_rdata
    rxSeq,              \* the bus partner's position in its stream of words
    flags,              \* the four fault flags of spi_fifo_config_0
    regs,               \* the configuration registers Spi::new programs
    core_frequency,     \* McycleDelay.core_frequency
    mcycle,             \* the free-running 64-bit cycle counter
    start_cycle_count,  \* delay_cycles: the counter at entry
    cycle_count,        \* delay_cycles: its argument
    hist                \* history of the call in progress (not program state)

vars == <<pc, op, rbuf, wbuf, prog, ret, txn, opIdx, txnRet, txFifo, rxFifo,
          rxSeq, flags, regs, core_frequency, mcycle, start_cycle_count,
          cycle_count, hist>>

busVars == <<rbuf, wbuf, prog, txFifo, rxFifo, rxSeq, flags>>
txnVars == <<txn, opIdx, txnRet>>
delayVars == <<mcycle, start_cycle_count, cycle_count>>


(***************************************************************************)
(* Configuration registers.  Spi::new takes the peripheral as it finds it: *)
(* out of reset, or as earlier code left it.                               *)
(***************************************************************************)
ResetRegs ==
    [ master_mode |-> FALSE,
      prd_s |-> 15, prd_p |-> 15, prd_d_ph_0 |-> 15, prd_d_ph_1 |-> 15,
      prd_i |-> 15,
      sclk_pol |-> FALSE, sclk_ph |-> FALSE, m_cont_en |-> FALSE,
      frame_size |-> 0, s_en |-> FALSE, m_en |-> FALSE, bit_inv |-> FALSE ]

DirtyRegs ==
    [ master_mode |-> FALSE,
      prd_s |-> 1, prd_p |-> 2, prd_d_ph_0 |-> 3, prd_d_ph_1 |-> 4,
      prd_i |-> 5,
      sclk_pol |-> TRUE, sclk_ph |-> FALSE, m_cont_en |-> TRUE,
      frame_size |-> 3, s_en |-> TRUE, m_en |-> FALSE, bit_inv |-> TRUE ]

NoFlags ==
    [ rx_fifo_overflow |-> FALSE, rx_fifo_underflow |-> FALSE,
      tx_fifo_overflow |-> FALSE, tx_fifo_underflow |-> FALSE ]

\* the history kept of a call: what it pushed and popped, the read buffer
\* it was given, the cycles that really passed since a delay began, the
\* operations of a transaction that were begun and those that touched the
\* peripheral or the counter, the arguments and prior registers of Spi::new
NoHist ==
    [ txlog |-> <<>>, rxlog |-> <<>>, rbuf0 |-> <<>>, elapsed |-> 0,
      dur |-> 0, ops |-> <<>>, started |-> <<>>, touched |-> {},
      new |-> <<>>, regs0 |-> ResetRegs ]

\* the driver at rest, nothing in flight
AtRest(state, r, cf) ==
    /\ pc = state
    /\ op = "none"
    /\ rbuf = <<>>
    /\ wbuf = <<>>
    /\ prog = <<>>
    /\ ret = "none"
    /\ txn = <<>>
    /\ opIdx = 0
    /\ txnRet = "none"
    /\ txFifo = <<>>
    /\ rxFifo = <<>>
    /\ rxSeq = 1
    /\ flags = NoFlags
    /\ regs = r
    /\ core_frequency = cf
    /\ mcycle = U64(0)
    /\ start_cycle_count = U64(0)
    /\ cycle_count = U64(0)
    /\ hist = [NoHist EXCEPT !.regs0 = r]

\* a return that lets a transaction go on after an error
ReturnGoesOn(r) ==
    /\ ret' = r
    /\ IF txn = <<>>
         THEN pc' = "idle" /\ UNCHANGED <<txn, opIdx, txnRet>>
         ELSE /\ pc' = "next"
              /\ opIdx' = opIdx + 1
              /\ UNCHANGED <<txn, txnRet>>

(***************************************************************************)
(* Return of a primitive.  A stand-alone call hands r to its caller; inside *)
(* SpiDevice::transaction the `?` of the match arm either goes on to the   *)
(* next operation or returns the error from the transaction.               *)
(***************************************************************************)
Return(r) ==
    /\ ret' = r
    /\ IF txn = <<>>
         THEN pc' = "idle" /\ UNCHANGED <<txn, opIdx, txnRet>>
         ELSE IF r = "Ok"
                THEN /\ pc' = "next"
                     /\ opIdx' = opIdx + 1
                     /\ UNCHANGED <<txn, txnRet>>
                ELSE /\ pc' = "idle"
                     /\ txnRet' = r
                     /\ txn' = <<>>
                     /\ UNCHANGED opIdx

(***************************************************************************)
(* McycleDelay (src/src/delay.rs)                                          *)
(***************************************************************************)
\* the product of a duration and a frequency the model's integers hold
Fits(d, f) == d <= (2147483647 \div f)

\* McycleDelay::cycles_since
cycles_since(previous_cycle_count) == wrapping_sub(mcycle, previous_cycle_count)

\* the cycle count delay_ns hands to delay_cycles.  The source divides by
\* 1_000_000_0000 = 100000 * 100000; floor division by a product is floor
\* division by one factor after the other.
NsCycles(ns, f) == ((ns * f) \div 100000) \div 100000

\* the cycle count delay_us hands to delay_cycles
UsCycles(us, f) == (us * f) \div 1000000

\* delay_ms with a divisor ten times too large
MsCyclesTenth(ms, f) == (ms * f) \div 10000

\* the cycle count delay_ms hands to delay_cycles
MsCycles(ms, f) == (ms * f) \div 1000

\* McycleDelay::delay_cycles, entry: read the counter, whatever it holds
delay_cycles(n) ==
    /\ cycle_count' = n
    /\ \E s \in CycleStarts : mcycle' = s /\ start_cycle_count' = s
    /\ pc' = "spin"

\* a stand-alone call of one of the three DelayNs methods
DelayCall(name, d, n) ==
    /\ pc = "idle"
    /\ Fits(d, core_frequency)
    /\ n <= MaxCycles
    /\ op' = name
    /\ ret' = "none"
    /\ hist' = [NoHist EXCEPT !.dur = d, !.regs0 = hist.regs0]
    /\ delay_cycles(U64(n))
    /\ UNCHANGED <<busVars, txnVars, regs, core_frequency>>

delay_ns == \E ns \in Durations :
    Fits(ns, core_frequency)
        /\ DelayCall("delay_ns", ns, NsCycles(ns, core_frequency))

delay_us == \E us \in Durations :
    Fits(us, core_frequency)
        /\ DelayCall("delay_us", us, UsCycles(us, core_frequency))

delay_ms == \E ms \in Durations :
    Fits(ms, core_frequency)
        /\ DelayCall("delay_ms", ms, MsCycles(ms, core_frequency))

\* cycle counts handed to delay_cycles directly
CycleCounts == { U64(0), U64(1), wrapping_sub(U64Max, U64(1)), U64Max }

\* a stand-alone call of McycleDelay::delay_cycles
delay_cycles_call == \E n \in CycleCounts :
    /\ pc = "idle"
    /\ op' = "delay_cycles"
    /\ ret' = "none"
    /\ hist' = [NoHist EXCEPT !.regs0 = hist.regs0]
    /\ delay_cycles(n)
    /\ UNCHANGED <<busVars, txnVars, regs, core_frequency>>

\* the counter runs on while delay_cycles spins
Tick == \E k \in 1..MaxTick :
    /\ pc = "spin"
    /\ hist.elapsed <= MaxCycles
    /\ U64LessEq(U64(hist.elapsed), cycle_count)
    /\ mcycle' = wrapping_add(mcycle, U64(k))
    /\ hist' = [hist EXCEPT !.elapsed = @ + k]
    /\ UNCHANGED <<pc, op, ret, busVars, txnVars, regs, core_frequency,
                   start_cycle_count, cycle_count>>

\* McycleDelay::delay_cycles, one evaluation of the loop condition.  On
\* return its locals are gone, and the counter is not looked at again
\* before the next delay_cycles reads it afresh.
delay_cycles_poll ==
    /\ pc = "spin"
    /\ IF U64LessEq(cycles_since(start_cycle_count), cycle_count)
         THEN UNCHANGED vars
         ELSE /\ Return("Ok")
              /\ hist' = IF txn = <<>> THEN hist
                         ELSE [hist EXCEPT !.touched = @ \cup {opIdx}]
              /\ mcycle' = U64(0)
              /\ start_cycle_count' = U64(0)
              /\ cycle_count' = U64(0)
              /\ UNCHANGED <<op, busVars, regs, core_frequency>>

InitDelay == \E cf \in CoreFreqs : AtRest("idle", ResetRegs, cf)

NextDelay ==
    \/ delay_ns \/ delay_us \/ delay_ms \/ delay_cycles_call
    \/ Tick \/ delay_cycles_poll

SpecDelay == InitDelay /\ [][NextDelay]_vars

(***************************************************************************)
(* Spi::new, Spi::bit_format, Spi::clear_fifo (src/src/spi.rs)             *)
(***************************************************************************)
\* clocks.spi_clk() values (Hz)
SpiClks == {1, 512, 1026, 72000000}

\* requested bus frequencies (Hz)
BusFreqs == {0, 1, 2, 140000, 140625, 8000000, 36000000, 72000000}

\* embedded_hal::spi::Mode
Modes ==
    [ polarity : {"IdleLow", "IdleHigh"},
      phase : {"CaptureOnFirstTransition", "CaptureOnSecondTransition"} ]

MODE_0 == [polarity |-> "IdleLow", phase |-> "CaptureOnFirstTransition"]

\* length of phase 0 and 1: clocks.spi_clk().0 / freq.0 / 2
PhaseLen(spi_clk, freq) == (spi_clk \div freq) \div 2

\* the range check without its upper limit
UnreachableNoUpper(spi_clk, freq) ==
    \/ freq = 0
    \/ PhaseLen(spi_clk, freq) = 0

\* the range check of Spi::new; a zero frequency panics in the division
Unreachable(spi_clk, freq) ==
    \/ freq = 0
    \/ PhaseLen(spi_clk, freq) > 256
    \/ PhaseLen(spi_clk, freq) = 0

\* `as u8`
AsU8(x) == x % 256

\* Spi::new without its write of spi_prd_1
ProgrammedNoIdle(r, mode, len) ==
    [ r EXCEPT
        !.master_mode = TRUE,
        !.prd_s = len, !.prd_p = len, !.prd_d_ph_0 = len, !.prd_d_ph_1 = len,
        !.sclk_pol = (mode.polarity = "IdleHigh"),
        !.sclk_ph = (mode.phase = "CaptureOnFirstTransition"),
        !.m_cont_en = FALSE,
        !.frame_size = 0,
        !.s_en = FALSE,
        !.m_en = TRUE ]

\* the registers after the three modify calls of Spi::new
Programmed(r, mode, len) ==
    [ r EXCEPT
        !.master_mode = TRUE,
        !.prd_s = len, !.prd_p = len, !.prd_d_ph_0 = len, !.prd_d_ph_1 = len,
        !.prd_i = len,
        !.sclk_pol = (mode.polarity = "IdleHigh"),
        !.sclk_ph = (mode.phase = "CaptureOnFirstTransition"),
        !.m_cont_en = FALSE,
        !.frame_size = 0,
        !.s_en = FALSE,
        !.m_en = TRUE ]

new == \E spi_clk \in SpiClks, freq \in BusFreqs, mode \in Modes,
          sysclk \in CoreFreqs :
    /\ pc = "unbuilt"
    /\ hist' = [hist EXCEPT !.new = <<spi_clk, freq, mode, sysclk>>]
    /\ IF Unreachable(spi_clk, freq)
         THEN /\ pc' = "panicked"
              /\ regs' = [regs EXCEPT !.master_mode = TRUE]
              /\ UNCHANGED core_frequency
         ELSE /\ pc' = "idle"
              /\ regs' = Programmed(regs, mode,
                                    AsU8(PhaseLen(spi_clk, freq) - 1))
              /\ core_frequency' = sysclk
    /\ UNCHANGED <<op, ret, busVars, txnVars, delayVars>>

\* bit_format with `write` in place of `modify`: the other fields of
\* spi_config fall back to zero
bit_format_Write == \E format \in {"LsbFirst", "MsbFirst"} :
    /\ pc = "idle"
    /\ regs' = [regs EXCEPT !.bit_inv = (format = "LsbFirst"),
                            !.sclk_pol = FALSE, !.sclk_ph = FALSE,
                            !.m_cont_en = FALSE, !.frame_size = 0,
                            !.s_en = FALSE, !.m_en = FALSE]
    /\ UNCHANGED <<pc, op, ret, busVars, txnVars, delayVars, core_frequency,
                   hist>>

\* Spi::bit_format

bit_format == \E format \in {"LsbFirst", "MsbFirst"} :
    /\ pc = "idle"
    /\ regs' = [regs EXCEPT !.bit_inv = (format = "LsbFirst")]
    /\ UNCHANGED <<pc, op, ret, busVars, txnVars, delayVars, core_frequency,
                   hist>>

clear_fifo ==
    /\ pc = "idle"
    /\ op' = "clear_fifo"
    /\ ret' = "none"
    /\ txnRet' = "none"
    /\ txFifo' = <<>>
    /\ rxFifo' = <<>>
    /\ flags' = NoFlags
    /\ UNCHANGED <<pc, rbuf, wbuf, prog, rxSeq, txn, opIdx, delayVars, regs,
                   core_frequency, hist>>

InitNew == \E r \in {ResetRegs, DirtyRegs} : AtRest("unbuilt", r, 0)

NextNew == new \/ bit_format

SpecNew == InitNew /\ [][NextNew]_vars

(***************************************************************************)
(* The peripheral: two FIFOs of FifoDepth entries coupled by the shifter,  *)
(* and four sticky fault flags.                                            *)
(***************************************************************************)
\* the words the bus partner clocks in, one per byte clocked out, over and
\* over: all different, the received byte being the low eight bits of a word
RxStream == <<60, 421, 197, 282>>

\* spi_fifo_config_1.tx_fifo_cnt: free entries of the transmit FIFO
tx_fifo_cnt == FifoDepth - Len(txFifo)

\* spi_fifo_config_1.rx_fifo_cnt: words waiting in the receive FIFO
rx_fifo_cnt == Len(rxFifo)

\* spi_bus_busy.sts_spi_bus_busy: a byte is still to be clocked out
sts_spi_bus_busy == txFifo # <<>>

FlagNames ==
    {"rx_fifo_overflow", "rx_fifo_underflow",
     "tx_fifo_overflow", "tx_fifo_underflow"}

\* the shifter clocks one byte out and, with it, one word in; a word that
\* finds the receive FIFO full is lost and raises the overflow flag
HwShift ==
    /\ txFifo # <<>>
    /\ txFifo' = Tail(txFifo)
    /\ rxSeq' = (rxSeq % Len(RxStream)) + 1
    /\ IF Len(rxFifo) < FifoDepth
         THEN rxFifo' = Append(rxFifo, RxStream[rxSeq]) /\ UNCHANGED flags
         ELSE flags' = [flags EXCEPT !.rx_fifo_overflow = TRUE]
              /\ UNCHANGED rxFifo
    /\ UNCHANGED <<pc, op, ret, rbuf, wbuf, prog, txnVars, delayVars, regs,
                   core_frequency, hist>>

\* the faults the hardware raises at once: one flag, or both of a direction
Faults ==
    { {f} : f \in FlagNames }
        \cup { {"rx_fifo_overflow", "rx_fifo_underflow"},
               {"tx_fifo_overflow", "tx_fifo_underflow"} }

\* the hardware raises fault flags while a primitive is polling
HwFault == \E fs \in Faults :
    /\ pc = "poll"
    /\ flags = NoFlags
    /\ flags' = [ rx_fifo_overflow |-> "rx_fifo_overflow" \in fs,
                  rx_fifo_underflow |-> "rx_fifo_underflow" \in fs,
                  tx_fifo_overflow |-> "tx_fifo_overflow" \in fs,
                  tx_fifo_underflow |-> "tx_fifo_underflow" \in fs ]
    /\ UNCHANGED <<pc, op, ret, rbuf, wbuf, prog, txFifo, rxFifo, rxSeq,
                   txnVars, delayVars, regs, core_frequency, hist>>

(***************************************************************************)
(* impl SpiBus for Spi: each primitive is the sequence of nb::block! polls *)
(* its loops make.  Tx(src, i) is nb::block!(FullDuplex::write(self, b))   *)
(* with b the filler 0x00 ("zero"), write[i] ("write") or the current      *)
(* words[i] ("words"); Rx(dst, i) is nb::block!(FullDuplex::read(self)),   *)
(* stored to the read buffer at i ("store") or dropped ("discard").        *)
(***************************************************************************)
Tx(src, i) == [k |-> "tx", arg |-> src, i |-> i]

Rx(dst, i) == [k |-> "rx", arg |-> dst, i |-> i]

\* the polls of a loop: those of its turns, one turn after the other
RECURSIVE Concat(_)
Concat(turns) ==
    IF turns = <<>> THEN <<>> ELSE Head(turns) \o Concat(Tail(turns))

SpiBus_read(words) ==
    Concat([i \in 1..Len(words) |-> <<Tx("zero", i), Rx("store", i)>>])

SpiBus_write(words) ==
    Concat([i \in 1..Len(words) |-> <<Tx("write", i), Rx("discard", i)>>])

\* a transfer that stops where its read buffer ends
SpiBus_transfer_Prefix(read, write) ==
    LET read_len == Len(read)
        write_len == Len(write)
    IN  IF read_len <= write_len
          THEN Concat([i \in 1..read_len |->
                         <<Tx("write", i), Rx("store", i)>>])
          ELSE Concat([i \in 1..write_len |->
                         <<Tx("write", i), Rx("store", i)>>])
               \o Concat([j \in 1..(read_len - write_len) |->
                            <<Rx("store", write_len + j)>>])

\* SpiBus::transfer: the common prefix in pairs, then what is left of the
\* longer buffer
SpiBus_transfer(read, write) ==
    LET read_len == Len(read)
        write_len == Len(write)
    IN  IF read_len = write_len
          THEN Concat([i \in 1..read_len |->
                         <<Tx("write", i), Rx("store", i)>>])
          ELSE IF read_len < write_len
                 THEN Concat([i \in 1..read_len |->
                                <<Tx("write", i), Rx("store", i)>>])
                      \o Concat([j \in 1..(write_len - read_len) |->
                                   <<Tx("write", read_len + j)>>])
                 ELSE Concat([i \in 1..write_len |->
                                <<Tx("write", i), Rx("store", i)>>])
                      \o Concat([j \in 1..(read_len - write_len) |->
                                   <<Rx("store", write_len + j)>>])

\* a transfer in place that sends, from its second step on, the word the
\* step before has just overwritten
SpiBus_transfer_in_place_Overwritten(words) ==
    Concat([i \in 1..Len(words) |->
              <<Tx("words", IF i = 1 THEN 1 ELSE i - 1), Rx("store", i)>>])

SpiBus_transfer_in_place(words) ==
    Concat([i \in 1..Len(words) |-> <<Tx("words", i), Rx("store", i)>>])

\* a read that sends what its buffer holds instead of the filler
TxDataFromBuffer(ins) ==
    CASE ins.arg = "zero" -> rbuf[ins.i]
      [] ins.arg = "write" -> wbuf[ins.i]
      [] ins.arg = "words" -> rbuf[ins.i]

\* the byte a Tx poll hands to FullDuplex::write
TxData(ins) ==
    CASE ins.arg = "zero" -> 0
      [] ins.arg = "write" -> wbuf[ins.i]
      [] ins.arg = "words" -> rbuf[ins.i]

\* (spi_fifo_rdata.read().bits() & 0xff) as u8
RxData(word) == word % 256

\* the poll just made was the last of the primitive, or an error ended it
Done(r) ==
    /\ prog' = <<>>
    /\ Return(r)

\* the poll just made succeeded; the primitive goes on, or returns Ok
Advance ==
    IF Tail(prog) = <<>>
      THEN Done("Ok")
      ELSE /\ prog' = Tail(prog)
           /\ UNCHANGED <<pc, ret, txnVars>>

Touch(h) == IF txn = <<>> THEN h ELSE [h EXCEPT !.touched = @ \cup {opIdx}]

\* FullDuplex::write without its tests of the fault flags
FullDuplex_write_NoFlagTest ==
    IF tx_fifo_cnt = 0 THEN "WouldBlock" ELSE "Ok"

\* impl FullDuplex: what write answers, the hardware being as it is
FullDuplex_write ==
    IF flags.tx_fifo_overflow THEN "TxOverflow"
    ELSE IF flags.tx_fifo_underflow THEN "TxUnderflow"
    ELSE IF tx_fifo_cnt = 0 THEN "WouldBlock"
    ELSE "Ok"

\* FullDuplex::read without its test of the overflow flag
FullDuplex_read_NoOverflowTest ==
    IF flags.rx_fifo_underflow THEN "RxUnderflow"
    ELSE IF rx_fifo_cnt = 0 THEN "WouldBlock"
    ELSE "Ok"

\* FullDuplex::read testing the underflow flag before the overflow flag
FullDuplex_read_UnderflowFirst ==
    IF flags.rx_fifo_underflow THEN "RxUnderflow"
    ELSE IF flags.rx_fifo_overflow THEN "RxOverflow"
    ELSE IF rx_fifo_cnt = 0 THEN "WouldBlock"
    ELSE "Ok"

\* impl FullDuplex: what read answers, the hardware being as it is
FullDuplex_read ==
    IF flags.rx_fifo_overflow THEN "RxOverflow"
    ELSE IF flags.rx_fifo_underflow THEN "RxUnderflow"
    ELSE IF rx_fifo_cnt = 0 THEN "WouldBlock"
    ELSE "Ok"

\* nb::block! that hands WouldBlock on instead of looping
nb_block_once(e) ==
    IF e = "Ok" THEN "value" ELSE "return"

\* nb::block!(e)?: loop again on WouldBlock, leave the loop with the value
\* on Ok, return the error from the primitive otherwise
nb_block(e) ==
    IF e = "WouldBlock" THEN "again"
    ELSE IF e = "Ok" THEN "value"
    ELSE "return"

\* nb::block!(FullDuplex::write(self, b))?, one turn of its loop
block_write ==
    /\ pc = "poll"
    /\ Head(prog).k = "tx"
    /\ \/ /\ nb_block(FullDuplex_write) = "again"
          /\ UNCHANGED <<pc, ret, prog, txnVars, txFifo, hist>>
       \/ /\ nb_block(FullDuplex_write) = "value"
          /\ txFifo' = Append(txFifo, TxData(Head(prog)))
          /\ hist' = Touch([hist EXCEPT
                              !.txlog = Append(@, TxData(Head(prog)))])
          /\ Advance
       \/ /\ nb_block(FullDuplex_write) = "return"
          /\ Done(FullDuplex_write)
          /\ hist' = Touch(hist)
          /\ UNCHANGED txFifo
    /\ UNCHANGED <<op, rbuf, wbuf, rxFifo, rxSeq, flags, regs, core_frequency,
                   delayVars>>

\* nb::block!(FullDuplex::read(self))?, one turn of its loop
block_read ==
    /\ pc = "poll"
    /\ Head(prog).k = "rx"
    /\ \/ /\ nb_block(FullDuplex_read) = "again"
          /\ UNCHANGED <<pc, ret, prog, txnVars, rxFifo, rbuf, hist>>
       \/ /\ nb_block(FullDuplex_read) = "value"
          /\ rxFifo' = Tail(rxFifo)
          /\ rbuf' = IF Head(prog).arg = "store"
                       THEN [rbuf EXCEPT
                               ![Head(prog).i] = RxData(Head(rxFifo))]
                       ELSE rbuf
          /\ hist' = Touch([hist EXCEPT
                              !.rxlog = Append(@, RxData(Head(rxFifo)))])
          /\ Advance
       \/ /\ nb_block(FullDuplex_read) = "return"
          /\ Done(FullDuplex_read)
          /\ hist' = Touch(hist)
          /\ UNCHANGED <<rxFifo, rbuf>>
    /\ UNCHANGED <<op, wbuf, txFifo, rxSeq, flags, regs, core_frequency,
                   delayVars>>

\* a primitive is entered with its buffers; one of no polls returns Ok at once
Begin(name, read, write, polls) ==
    /\ op' = name
    /\ rbuf' = read
    /\ wbuf' = write
    /\ IF polls = <<>>
         THEN Done("Ok")
         ELSE /\ prog' = polls
              /\ pc' = "poll"
              /\ ret' = "none"
              /\ UNCHANGED txnVars

\* The caller: it makes its next call when the last one has returned, and
\* after an error it clears the FIFOs before it uses the bus again.
Callable ==
    /\ pc = "idle"
    /\ ret \in {"none", "Ok"}
    /\ txnRet \in {"none", "Ok"}

\* caller buffers: a read buffer holds stale bytes, a write buffer a pattern
\* of distinct bytes
Stale(n) == [i \in 1..n |-> 238]

Pattern(n) == [i \in 1..n |-> (90 * i) % 256]

Call(h) == [NoHist EXCEPT !.rbuf0 = h, !.regs0 = hist.regs0, !.new = hist.new]

read == \E n \in 0..MaxLen :
    /\ Callable
    /\ Begin("read", Stale(n), <<>>, SpiBus_read(Stale(n)))
    /\ hist' = Call(Stale(n))
    /\ UNCHANGED <<txFifo, rxFifo, rxSeq, flags, regs, core_frequency,
                   delayVars>>

write == \E n \in 0..MaxLen :
    /\ Callable
    /\ Begin("write", <<>>, Pattern(n), SpiBus_write(Pattern(n)))
    /\ hist' = Call(<<>>)
    /\ UNCHANGED <<txFifo, rxFifo, rxSeq, flags, regs, core_frequency,
                   delayVars>>

transfer == \E n \in 0..MaxLen, m \in 0..MaxLen :
    /\ Callable
    /\ Begin("transfer", Stale(n), Pattern(m),
             SpiBus_transfer(Stale(n), Pattern(m)))
    /\ hist' = Call(Stale(n))
    /\ UNCHANGED <<txFifo, rxFifo, rxSeq, flags, regs, core_frequency,
                   delayVars>>

transfer_in_place == \E n \in 0..MaxLen :
    /\ Callable
    /\ Begin("transfer_in_place", Pattern(n), <<>>,
             SpiBus_transfer_in_place(Pattern(n)))
    /\ hist' = Call(Pattern(n))
    /\ UNCHANGED <<txFifo, rxFifo, rxSeq, flags, regs, core_frequency,
                   delayVars>>

\* SpiBus::flush: entry, then one evaluation of the loop condition
flush ==
    /\ Callable
    /\ pc' = "busy"
    /\ op' = "flush"
    /\ ret' = "none"
    /\ hist' = Call(<<>>)
    /\ UNCHANGED <<busVars, txnVars, delayVars, regs, core_frequency>>

flush_poll ==
    /\ pc = "busy"
    /\ IF sts_spi_bus_busy
         THEN UNCHANGED vars
         ELSE /\ Return("Ok")
              /\ UNCHANGED <<op, busVars, delayVars, regs, core_frequency,
                             hist>>

\* the engine as Spi::new leaves it
Built == Programmed(ResetRegs, MODE_0, 3)

Init == AtRest("idle", Built, 144000000)

Next ==
    \/ read \/ write \/ transfer \/ transfer_in_place
    \/ flush \/ flush_poll \/ clear_fifo
    \/ block_write \/ block_read
    \/ HwShift \/ HwFault

Spec == Init /\ [][Next]_vars

(***************************************************************************)
(* Fault-free runs.  The hardware raises no fault flag, clocks out every   *)
(* byte pushed and clocks in one word for each; the caller starts every    *)
(* call on drained FIFOs, so that the receive FIFO holds no word but those *)
(* of the call.  The driver keeps polling and the shifter keeps clocking.  *)
(***************************************************************************)
Drained ==
    /\ txFifo = <<>>
    /\ rxFifo = <<>>
    /\ flags = NoFlags

NextFaultFree ==
    \/ Drained /\ read
    \/ Drained /\ write
    \/ Drained /\ transfer
    \/ Drained /\ transfer_in_place
    \/ clear_fifo
    \/ block_write \/ block_read
    \/ HwShift

SpecFaultFree ==
    /\ Init
    /\ [][NextFaultFree]_vars
    /\ WF_vars(block_write)
    /\ WF_vars(block_read)
    /\ WF_vars(HwShift)

(***************************************************************************)

(* impl SpiDevice for Spi: transaction                                     *)
(***************************************************************************)
\* most operations in a transaction
MaxOps == 2

\* embedded_hal::spi::Operation
Read(buf) == [kind |-> "Read", read |-> buf, write |-> <<>>, ns |-> 0]

Write(buf) == [kind |-> "Write", read |-> <<>>, write |-> buf, ns |-> 0]

Transfer(rd, wr) == [kind |-> "Transfer", read |-> rd, write |-> wr, ns |-> 0]

TransferInPlace(buf) ==
    [kind |-> "TransferInPlace", read |-> buf, write |-> <<>>, ns |-> 0]

DelayNs(d) == [kind |-> "DelayNs", read |-> <<>>, write |-> <<>>, ns |-> d]

\* the operations a modelled transaction is made of
Operations ==
    { Read(Stale(1)), Write(Pattern(1)), Transfer(Stale(1), Pattern(1)),
      TransferInPlace(Pattern(1)), DelayNs(14) }

RECURSIVE Lists(_)
Lists(n) ==
    IF n = 0 THEN {<<>>}
    ELSE Lists(n - 1)
         \cup { Append(l, o) : l \in { x \in Lists(n - 1) : Len(x) = n - 1 },
                               o \in Operations }

\* the match of SpiDevice::transaction: the primitive an operation is
\* handed to, with its buffers and the polls that primitive makes
Arm(operation) ==
    CASE operation.kind = "Read" ->
           [name |-> "read", read |-> operation.read, write |-> <<>>,
            polls |-> SpiBus_read(operation.read)]
      [] operation.kind = "Write" ->
           [name |-> "write", read |-> <<>>, write |-> operation.write,
            polls |-> SpiBus_write(operation.write)]
      [] operation.kind = "Transfer" ->
           [name |-> "transfer", read |-> operation.read,
            write |-> operation.write,
            polls |-> SpiBus_transfer(operation.read, operation.write)]
      [] operation.kind = "TransferInPlace" ->
           [name |-> "transfer_in_place", read |-> operation.read,
            write |-> <<>>,
            polls |-> SpiBus_transfer_in_place(operation.read)]
      [] operation.kind = "DelayNs" ->
           [name |-> "delay_ns", read |-> <<>>, write |-> <<>>,
            polls |-> <<>>]

TxnLists == Lists(MaxOps)

\* SpiDevice::transaction, entry
transaction == \E operations \in TxnLists :
    /\ Callable
    /\ op' = "none"
    /\ ret' = "none"
    /\ prog' = <<>>
    /\ rbuf' = <<>>
    /\ wbuf' = <<>>
    /\ txn' = operations
    /\ opIdx' = 1
    /\ hist' = [Call(<<>>) EXCEPT !.ops = operations]
    /\ IF operations = <<>>
         THEN pc' = "idle" /\ txnRet' = "Ok"
         ELSE pc' = "next" /\ txnRet' = "none"
    /\ UNCHANGED <<txFifo, rxFifo, rxSeq, flags, regs, core_frequency,
                   delayVars>>

\* SpiDevice::transaction, the head of `for operation in operations`
transaction_next ==
    /\ pc = "next"
    /\ IF opIdx > Len(txn)
         THEN /\ pc' = "idle"
              /\ txnRet' = "Ok"
              /\ txn' = <<>>
              /\ UNCHANGED <<op, ret, rbuf, wbuf, prog, opIdx, delayVars,
                             hist>>
         ELSE LET arm == Arm(txn[opIdx])
                  h == [hist EXCEPT
                          !.started = Append(@, [i |-> opIdx,
                                                 name |-> arm.name,
                                                 polls |-> arm.polls]),
                          !.txlog = <<>>, !.rxlog = <<>>,
                          !.rbuf0 = arm.read, !.elapsed = 0,
                          !.dur = txn[opIdx].ns]
              IN  IF arm.name = "delay_ns"
                    THEN /\ Fits(txn[opIdx].ns, core_frequency)
                         /\ op' = arm.name
                         /\ ret' = "none"
                         /\ delay_cycles(U64(NsCycles(txn[opIdx].ns,
                                                      core_frequency)))
                         /\ hist' = h
                         /\ UNCHANGED <<rbuf, wbuf, prog, txnVars>>
                    ELSE /\ Begin(arm.name, arm.read, arm.write, arm.polls)
                         /\ hist' = h
                         /\ UNCHANGED delayVars
    /\ UNCHANGED <<txFifo, rxFifo, rxSeq, flags, regs, core_frequency>>

NextTxn ==
    \/ transaction \/ transaction_next \/ clear_fifo
    \/ block_write \/ block_read
    \/ Tick \/ delay_cycles_poll
    \/ HwShift \/ HwFault

SpecTxn == Init /\ [][NextTxn]_vars

(***************************************************************************)
(* The life of an engine: Spi::new on a peripheral out of reset or left    *)
(* configured by earlier code, then any calls.  The configuration          *)
(* registers do not depend on the data moved: the calls carry at most one  *)
(* byte and start on drained FIFOs, a transaction has one operation, and   *)
(* the engine is built for one bus clock and one core clock.               *)
(***************************************************************************)
NextLifetime ==
    \/ new /\ hist'.new[1] = 72000000
           /\ hist'.new[2] \in {140625, 8000000}
           /\ hist'.new[4] = 144000000
    \/ bit_format
    \/ clear_fifo
    \/ Drained /\ read /\ Len(rbuf') <= 1
    \/ Drained /\ write /\ Len(wbuf') <= 1
    \/ Drained /\ transfer /\ Len(rbuf') + Len(wbuf') <= 1
    \/ Drained /\ transfer_in_place /\ Len(rbuf') <= 1
    \/ Drained /\ flush
    \/ flush_poll
    \/ Drained /\ transaction /\ Len(txn') <= 1
    \/ transaction_next
    \/ block_write \/ block_read
    \/ Tick \/ delay_cycles_poll
    \/ HwShift \/ HwFault

SpecLifetime == InitNew /\ [][NextLifetime]_vars

(***************************************************************************)

(* Properties                                                              *)
(***************************************************************************)
\* what a driver call may hand back besides Ok
Errors == {"RxOverflow", "RxUnderflow", "TxOverflow", "TxUnderflow"}

\* C5: delay_ns, delay_us and delay_ms each hand delay_cycles the cycle
\* count floor(d * core_frequency / unitsPerSecond), with unitsPerSecond
\* 10^9, 10^6 and 10^3.
C5_CyclesFromDuration ==
    pc = "spin" /\ txn = <<>>
        /\ op \in {"delay_ns", "delay_us", "delay_ms"} =>
        cycle_count =
            U64((hist.dur * core_frequency)
                  \div (CASE op = "delay_ns" -> 1000000000
                          [] op = "delay_us" -> 1000000
                          [] op = "delay_ms" -> 1000))

\* C10: delay_ms(t) has not returned before the counter advanced by at
\* least t * core_frequency / 1000 cycles since entry, however far the
\* counter moves between two polls and wherever it stood at entry.
C10_DelayMsNotEarly ==
    op = "delay_ms" /\ pc = "idle" /\ ret = "Ok" =>
        hist.elapsed * 1000 >= hist.dur * core_frequency

\* a delay_ms(1000) at 1 Hz that has returned, after two cycles
C10_Witness ==
    /\ op = "delay_ms" /\ pc = "idle" /\ ret = "Ok"
    /\ hist.dur = 1000 /\ core_frequency = 1
    /\ hist.elapsed = 2

\* C7: when floor(F / (2f)) is in 1..256, Spi::new programs
\* floor(F / (2f)) - 1, a value in 0..255, into both half-period fields
\* and into the idle-period field.
C7_DividerProgrammed ==
    pc \in {"idle", "panicked"} /\ hist.new # <<>> =>
        LET F == hist.new[1]
            f == hist.new[2]
        IN  f # 0 /\ F \div (2 * f) \in 1..256 =>
                /\ pc = "idle"
                /\ F \div (2 * f) - 1 \in 0..255
                /\ regs.prd_d_ph_0 = F \div (2 * f) - 1
                /\ regs.prd_d_ph_1 = F \div (2 * f) - 1
                /\ regs.prd_i = F \div (2 * f) - 1

\* 72 MHz down to 140625 Hz: the longest phase, 256, programmed as 255 over
\* registers that held other values
C7_Witness ==
    /\ pc = "idle"
    /\ hist.new # <<>>
    /\ hist.new[1] = 72000000 /\ hist.new[2] = 140625
    /\ hist.regs0 = DirtyRegs
    /\ regs.prd_d_ph_0 = 255 /\ regs.prd_d_ph_1 = 255 /\ regs.prd_i = 255

\* C8: when floor(F / (2f)) is 0 or above 256, Spi::new panics: no engine
\* exists, and the period fields hold what they held before, neither a
\* clamped nor a wrapped divider.
C8_OutOfRangePanics ==
    pc \in {"idle", "panicked"} /\ hist.new # <<>> =>
        LET F == hist.new[1]
            f == hist.new[2]
        IN  f # 0 /\ (F \div (2 * f) = 0 \/ F \div (2 * f) > 256) =>
                /\ pc = "panicked"
                /\ core_frequency = 0
                /\ regs = [hist.regs0 EXCEPT !.master_mode = TRUE]

\* 1026 Hz down to 1 Hz: a phase of 513, whose truncation to eight bits
\* would be 0
C8_Witness ==
    /\ pc = "panicked"
    /\ hist.new # <<>>
    /\ hist.new[1] = 1026 /\ hist.new[2] = 1
    /\ AsU8(PhaseLen(1026, 1) - 1) = 0

Max(a, b) == IF a >= b THEN a ELSE b

Primitives == {"read", "write", "transfer", "transfer_in_place"}

\* C1: in a transfer whose read buffer is the longer one, every step
\* pushes a byte before it captures one, and on return the bytes pushed
\* are those of the write buffer followed by one 0x00 filler for each
\* further byte of the read buffer, each step's received byte being in
\* the read buffer at the step's index.
C1_FillerInReadSuffix ==
    op = "transfer" /\ Len(rbuf) > Len(wbuf) =>
        /\ pc = "poll" /\ Head(prog).k = "rx" =>
               Len(hist.txlog) >= Head(prog).i
        /\ pc = "idle" /\ ret = "Ok" =>
               /\ hist.txlog
                    = wbuf \o [i \in 1..(Len(rbuf) - Len(wbuf)) |-> 0]
               /\ rbuf = hist.rxlog

\* C2: a transfer whose write buffer is the longer one pushes every byte
\* of the write buffer in index order and fills the read buffer with the
\* first bytes received, in order, its further steps leaving the read
\* buffer alone; and every transfer makes exactly
\* max(len(read), len(write)) steps, a step being an index at which it
\* pushes or pops.
C2_MaxByteSteps ==
    op = "transfer" /\ pc = "idle" /\ ret = "Ok" =>
        /\ Len(rbuf) < Len(wbuf) =>
               /\ hist.txlog = wbuf
               /\ Len(hist.rxlog) >= Len(rbuf)
               /\ rbuf = SubSeq(hist.rxlog, 1, Len(rbuf))
        /\ Max(Len(hist.txlog), Len(hist.rxlog))
               = Max(Len(rbuf), Len(wbuf))

\* a transfer of two bytes out and one byte in that returned Ok
C2_Witness ==
    /\ op = "transfer" /\ pc = "idle" /\ ret = "Ok" /\ txn = <<>>
    /\ Len(rbuf) = 1 /\ Len(wbuf) = 2
    /\ hist.txlog = wbuf
    /\ rbuf = <<hist.rxlog[1]>>

\* C3: a primitive that returns Ok has popped the receive FIFO exactly as
\* often as it pushed the transmit FIFO.
C3_FifoBalanced ==
    op \in Primitives /\ pc = "idle" /\ ret = "Ok" =>
        Len(hist.rxlog) = Len(hist.txlog)

\* the read buffer holds the bytes captured so far, in order, and behind
\* them what it held when the call was made
BufferKept ==
    /\ Len(rbuf) = Len(hist.rbuf0)
    /\ \A i \in 1..Len(rbuf) :
          rbuf[i] = IF i <= Len(hist.rxlog) THEN hist.rxlog[i]
                    ELSE hist.rbuf0[i]

\* C9: when the receive half of a step of read, transfer or
\* transfer_in_place polls with the receive-overflow flag set, the call
\* returns RxOverflow there and then, pushes and pops nothing more, and
\* leaves in the buffer the bytes of the earlier steps followed by the
\* bytes the buffer held before the call.
C9_RxOverflowStopsCall ==
    [][ ( /\ pc = "poll"
          /\ op \in {"read", "transfer", "transfer_in_place"}
          /\ Head(prog).k = "rx"
          /\ flags.rx_fifo_overflow
          /\ (prog' # prog \/ pc' # pc) )
        => ( /\ pc' = "idle"
             /\ ret' = "RxOverflow"
             /\ prog' = <<>>
             /\ rbuf' = rbuf
             /\ txFifo' = txFifo
             /\ rxFifo' = rxFifo
             /\ hist'.txlog = hist.txlog
             /\ hist'.rxlog = hist.rxlog
             /\ BufferKept' ) ]_vars

\* a read of two bytes stopped by the overflow flag at its second step:
\* the first byte captured, the second still stale
C9_Witness ==
    /\ op = "read" /\ pc = "idle" /\ ret = "RxOverflow" /\ txn = <<>>
    /\ hist.rbuf0 = <<238, 238>>
    /\ hist.rxlog = <<60>>
    /\ hist.txlog = <<0, 0>>
    /\ rbuf = <<60, 238>>

\* C4: a transaction begins its operations one at a time in list order,
\* each as the primitive of its kind with the polls of that primitive; an
\* error of an operation ends the transaction with that error before any
\* later operation has begun or touched the FIFOs or the counter;
\* otherwise the transaction returns Ok after its last operation.
C4_TransactionInOrder ==
    LET s == hist.started
        PrimitiveOf(o) ==
            CASE o.kind = "Read" -> "read"
              [] o.kind = "Write" -> "write"
              [] o.kind = "Transfer" -> "transfer"
              [] o.kind = "TransferInPlace" -> "transfer_in_place"
              [] o.kind = "DelayNs" -> "delay_ns"
        PollsOf(o) ==
            CASE o.kind = "Read" -> SpiBus_read(o.read)
              [] o.kind = "Write" -> SpiBus_write(o.write)
              [] o.kind = "Transfer" -> SpiBus_transfer(o.read, o.write)
              [] o.kind = "TransferInPlace" ->
                     SpiBus_transfer_in_place(o.read)
              [] o.kind = "DelayNs" -> <<>>
    IN  /\ Len(s) <= Len(hist.ops)
        /\ \A j \in 1..Len(s) :
              /\ s[j].i = j
              /\ s[j].name = PrimitiveOf(hist.ops[j])
              /\ s[j].polls = PollsOf(hist.ops[j])
        /\ hist.touched \subseteq 1..Len(s)
        /\ txn # <<>> => txn = hist.ops /\ txnRet = "none"
        /\ hist.ops # <<>> /\ ret \in Errors =>
              /\ pc = "idle"
              /\ txnRet = ret
              /\ Len(s) = opIdx
              /\ hist.touched \subseteq 1..opIdx
        /\ txnRet \in Errors => txnRet = ret
        /\ txnRet = "Ok" =>
              /\ pc = "idle"
              /\ ret \in {"none", "Ok"}
              /\ Len(s) = Len(hist.ops)
        /\ pc = "idle" /\ hist.ops # <<>> /\ op # "clear_fifo" =>
              txnRet \in Errors \cup {"Ok"}

\* a transaction of a write and a read whose write failed: the read was
\* never begun
C4_Witness ==
    /\ pc = "idle"
    /\ hist.ops = <<Write(Pattern(1)), Read(Stale(1))>>
    /\ txnRet = "RxOverflow"
    /\ Len(hist.started) = 1
    /\ hist.txlog = <<90>>

\* C6: a Delay(d) of a transaction has let at least d nanoseconds' worth
\* of core-clock cycles, floor(d * core_frequency / 10^9), pass when the
\* transaction goes on to its next operation.
C6_DelayAtLeastRequested ==
    op = "delay_ns" /\ pc = "next" /\ ret = "Ok" =>
        hist.elapsed >= (hist.dur * core_frequency) \div 1000000000

\* C11: cycles_since(start) is the number of cycles that really passed
\* since start was read, also when the counter has wrapped past 2^64 - 1
\* in between.
C11_ElapsedAcrossWrap ==
    pc = "spin" =>
        cycles_since(start_cycle_count) = U64(hist.elapsed)

\* the counter read at 2^64 - 1 and now, two cycles later, at 1
C11_Witness ==
    /\ pc = "spin"
    /\ start_cycle_count = U64Max
    /\ mcycle = U64(1)
    /\ hist.elapsed = 2
    /\ cycles_since(start_cycle_count) = U64(2)

\* C12: a primitive attempts a pop of the receive FIFO only when it has
\* pushed more bytes than it has popped, and the bytes it has pushed are
\* those of the caller's buffer in index order.
C12_PushBeforePop ==
    op \in Primitives =>
        /\ pc = "poll" /\ Head(prog).k = "rx" =>
               Len(hist.rxlog) + 1 <= Len(hist.txlog)
        /\ hist.txlog =
               CASE op = "read" -> [i \in 1..Len(hist.txlog) |-> 0]
                 [] op = "transfer_in_place" ->
                        SubSeq(hist.rbuf0, 1, Len(hist.txlog))
                 [] OTHER -> SubSeq(wbuf, 1, Len(hist.txlog))

\* C13: what a call of the driver hands back is Ok or one of the four
\* errors, never WouldBlock; a poll that finds the transmit FIFO without
\* space or the receive FIFO without data leaves the call where it is, to
\* poll again.
C13_WouldBlockNeverReturned ==
    [][ /\ ret' \in {"none", "Ok"} \cup Errors
        /\ txnRet' \in {"none", "Ok"} \cup Errors
        /\ ( /\ pc = "poll"
             /\ \/ Head(prog).k = "tx" /\ FullDuplex_write = "WouldBlock"
                \/ Head(prog).k = "rx" /\ FullDuplex_read = "WouldBlock" )
           => /\ pc' = "poll"
              /\ prog' = prog
              /\ ret' = ret
              /\ hist' = hist ]_vars

\* a write polling a transmit FIFO that an earlier transfer left full
C13_Witness ==
    /\ pc = "poll" /\ op = "write"
    /\ Head(prog).k = "tx"
    /\ flags = NoFlags
    /\ tx_fifo_cnt = 0
    /\ FullDuplex_write = "WouldBlock"

\* C14: a read that returns Ok has pushed one 0x00 for each byte of its
\* buffer and nothing else, and its buffer holds the bytes it received, the
\* i-th at index i, whatever the buffer held before.
C14_ReadFillsBuffer ==
    op = "read" /\ pc \in {"idle", "next"} /\ ret = "Ok" =>
        /\ hist.txlog = [i \in 1..Len(rbuf) |-> 0]
        /\ Len(hist.rxlog) = Len(rbuf)
        /\ \A i \in 1..Len(rbuf) :
              rbuf[i] = hist.rxlog[i] /\ rbuf[i] \in 0..255

\* a read of two stale bytes that received 60 and 421 mod 256
C14_Witness ==
    /\ op = "read" /\ pc = "idle" /\ ret = "Ok" /\ txn = <<>>
    /\ hist.rbuf0 = <<238, 238>>
    /\ hist.txlog = <<0, 0>>
    /\ rbuf = <<60, 165>>

\* C15: a transfer in place that returns Ok has sent, at step i, the byte
\* its buffer held at i before the call, and its buffer now holds at i the
\* i-th byte it received.
C15_InPlaceSendsThenOverwrites ==
    op = "transfer_in_place" /\ pc \in {"idle", "next"} /\ ret = "Ok" =>
        /\ hist.txlog = hist.rbuf0
        /\ Len(hist.rxlog) = Len(rbuf)
        /\ \A i \in 1..Len(rbuf) : rbuf[i] = hist.rxlog[i]

\* a transfer in place of <<90, 180>> that received 60 and 421 mod 256
C15_Witness ==
    /\ op = "transfer_in_place" /\ pc = "idle" /\ ret = "Ok" /\ txn = <<>>
    /\ hist.rbuf0 = <<90, 180>>
    /\ hist.txlog = <<90, 180>>
    /\ rbuf = <<60, 165>>

\* C16: on fault-free hardware that clocks every pushed byte out and one
\* word in for it, every read, write, transfer and transfer_in_place that
\* has begun to poll goes on to return Ok.
C16_CallsReturnOk ==
    (pc = "poll" /\ op \in Primitives) ~> (pc = "idle" /\ ret = "Ok")

\* C17: a poll of a primitive that finds a fault flag of its direction set
\* ends the primitive with an error, pushing and popping nothing and
\* leaving the fault flags and both FIFOs as they are; and the fault flags
\* are cleared by nothing but a call of clear_fifo.
C17_ErrorLeavesFifos ==
    [][ /\ ( /\ pc = "poll"
             /\ \/ /\ Head(prog).k = "tx"
                   /\ flags.tx_fifo_overflow \/ flags.tx_fifo_underflow
                \/ /\ Head(prog).k = "rx"
                   /\ flags.rx_fifo_overflow \/ flags.rx_fifo_underflow
             /\ (pc' # pc \/ prog' # prog \/ hist' # hist) )
           => /\ pc' = "idle"
              /\ ret' \in Errors
              /\ prog' = <<>>
              /\ txFifo' = txFifo
              /\ rxFifo' = rxFifo
              /\ flags' = flags
              /\ hist'.txlog = hist.txlog
              /\ hist'.rxlog = hist.rxlog
              /\ op' = op
        /\ ( \/ \E f \in FlagNames : flags[f] /\ ~flags'[f]
             \/ Len(txFifo') + Len(rxFifo') < Len(txFifo) + Len(rxFifo) - 1 )
           => pc = "idle" /\ op' = "clear_fifo" ]_vars

\* a transfer stopped at its second push by the transmit-underflow flag,
\* its first byte still in the transmit FIFO
C17_Witness ==
    /\ op = "transfer" /\ pc = "idle" /\ ret = "TxUnderflow" /\ txn = <<>>
    /\ flags.tx_fifo_underflow
    /\ wbuf = <<90, 180>>
    /\ hist.txlog = <<90>>
    /\ txFifo = <<90>>

\* C18: delay_cycles(n) returns once the counter has advanced far enough,
\* for every 64-bit n: while it spins there is a number of elapsed cycles
\* that makes its loop condition false, and with n = 0 any poll that sees
\* the counter advanced finds it false.
C18_DelayCyclesReturns ==
    pc = "spin" =>
        /\ ~U64LessEq(U64Max, cycle_count)
        /\ cycle_count = U64(0) /\ hist.elapsed > 0 =>
               ~U64LessEq(cycles_since(start_cycle_count), cycle_count)

\* what Spi::new programmed is still in the registers: master enabled and
\* slave disabled, continuous mode off, 8-bit frames, clock polarity and
\* phase as the mode given to Spi::new, and len - 1 in both half-period
\* fields and the idle-period field
ConfigKept ==
    pc \notin {"unbuilt", "panicked"} =>
        LET len == PhaseLen(hist.new[1], hist.new[2])
            mode == hist.new[3]
        IN  /\ regs.m_en /\ ~regs.s_en
            /\ ~regs.m_cont_en
            /\ regs.frame_size = 0
            /\ regs.sclk_pol = (mode.polarity = "IdleHigh")
            /\ regs.sclk_ph = (mode.phase = "CaptureOnFirstTransition")
            /\ regs.prd_d_ph_0 = len - 1
            /\ regs.prd_d_ph_1 = len - 1
            /\ regs.prd_i = len - 1

\* C19: after Spi::new and after every step of every later call the
\* configuration is what Spi::new programmed; a step that changes a
\* register is Spi::new, which leaves the bit-order bit alone, or
\* bit_format, which changes nothing but the bit-order bit.
C19_ConfigurationFixed ==
    [][ /\ ConfigKept'
        /\ regs' # regs =>
              \/ pc = "unbuilt" /\ regs'.bit_inv = regs.bit_inv
              \/ /\ pc = "idle" /\ pc' = "idle"
                 /\ regs' = [regs EXCEPT !.bit_inv = ~regs.bit_inv] ]_vars

\* an engine built in mode 3 for 140625 Hz over registers that held other
\* values, set to MSB first, after a transaction that ended in an error
C19_Witness ==
    /\ pc = "idle"
    /\ hist.new # <<>>
    /\ hist.new[2] = 140625
    /\ hist.new[3] = [polarity |-> "IdleHigh",
                      phase |-> "CaptureOnSecondTransition"]
    /\ hist.regs0 = DirtyRegs
    /\ ~regs.bit_inv
    /\ regs.prd_i = 255 /\ regs.sclk_pol /\ ~regs.sclk_ph
    /\ txnRet \in Errors

\* C20: a transmit poll answers TxOverflow when the transmit-overflow flag
\* is set, else TxUnderflow when the transmit-underflow flag is set, and
\* pushes or polls again only when both are clear; a receive poll answers
\* RxOverflow, else RxUnderflow, and pops or polls again only when both
\* receive flags are clear, whatever the FIFO counts and the flags of the
\* other direction are.
C20_FlagPrecedence ==
    [][ pc = "poll" =>
          LET tx == Head(prog).k = "tx"
              over == IF tx THEN flags.tx_fifo_overflow
                      ELSE flags.rx_fifo_overflow
              under == IF tx THEN flags.tx_fifo_underflow
                       ELSE flags.rx_fifo_underflow
              answer == IF tx THEN FullDuplex_write ELSE FullDuplex_read
              polled == pc' # pc \/ prog' # prog \/ hist' # hist
          IN  /\ over => answer = (IF tx THEN "TxOverflow" ELSE "RxOverflow")
              /\ ~over /\ under =>
                     answer = (IF tx THEN "TxUnderflow" ELSE "RxUnderflow")
              /\ ~over /\ ~under => answer \in {"WouldBlock", "Ok"}
              /\ polled /\ over =>
                     /\ pc' = "idle"
                     /\ ret' = (IF tx THEN "TxOverflow" ELSE "RxOverflow")
              /\ polled /\ ~over /\ under =>
                     /\ pc' = "idle"
                     /\ ret' = (IF tx THEN "TxUnderflow" ELSE "RxUnderflow")
              /\ polled /\ ~over /\ ~under =>
                     /\ ret' \in {"none", "Ok"}
                     /\ IF tx
                          THEN Len(hist'.txlog) = Len(hist.txlog) + 1
                          ELSE Len(hist'.rxlog) = Len(hist.rxlog) + 1 ]_vars

\* a read ended by RxOverflow with both receive flags set and nothing in
\* the receive FIFO
C20_Witness ==
    /\ op = "read" /\ pc = "idle" /\ ret = "RxOverflow"
    /\ flags.rx_fifo_overflow /\ flags.rx_fifo_underflow
    /\ rxFifo = <<>>
    /\ hist.txlog = <<0>> /\ hist.rxlog = <<>>

=============================================================================
